---------------------------- MODULE Spec2Model ----------------------------
(***************************************************************************)
(* ReliabilityCache (zenoh-ext/src/reliability_cache.rs).                  *)
(*                                                                         *)
(* A key expression is a sequence of segments ("a/b" is <<"a","b">>); the  *)
(* segments "*" and "**" are the wildcards.  A sample is a record          *)
(* [key, id]: the key expression it was published on and a payload.        *)
(* An Option<T> is a sequence of length 0 (None) or 1 (Some).              *)
(***************************************************************************)
EXTENDS Integers, Sequences, FiniteSets, TLC

\* ------------------------------------------------------------------ bounds
MaxHistory == 2
MaxLimit == 1
MaxSamples == 3
MaxQueries == 1
MaxChan == 1

\* The key expressions the publishers of the session put on: a concrete key
\* and a wildcard one (a put on a key expression with wildcards is delivered
\* with that key expression).
SampleKeys == {<<"a">>, <<"**">>}
\* The selectors the session's queries carry.
Selectors == {<<"a">>, <<"a", "a">>, <<"*">>, <<"a", "*">>}
\* The queryable prefixes a builder is given (None, or Some("a")).
Prefixes == {<< >>, << <<"a">> >>}
\* The key expression the cache is built on.
pub_key_expr == <<"**">>

VARIABLES
    history,            \* conf.history
    resources_limit,    \* conf.resources_limit : Option<usize>
    queryable_prefix,   \* conf.queryable_prefix : Option<KeyExpr>
    cache,              \* HashMap<OwnedKeyExpr, VecDeque<Sample>> of the task
    sub_recv,           \* samples in the subscriber's channel
    quer_recv,          \* selectors of the queries in the queryable's channel
    pc,                 \* the task: "unspawned", "select", "reply", "done",
                        \* "panicked"
    query,              \* Option<selector> of the query being served
    todo,               \* the samples the reply loops have still to send
    replies,            \* the samples replied to the query being served
    reply_err,          \* whether a reply to that query returned Err
    sub,                \* the subscriber: "none", "declared", "undeclared",
                        \* "failed" (its undeclare returned Err)
    queryable,          \* the queryable, likewise
    stoptx,             \* TRUE while the Sender<bool> of the stop channel lives
    handle,             \* the ReliabilityCache handle and the future of close()
    close_log,          \* what close() or the drop of the handle did, in order
    processed,          \* every sample the task took: [sample, skey, accepted]
    published,          \* number of samples delivered by the session
    asked               \* number of queries delivered by the session

vars == <<history, resources_limit, queryable_prefix, cache, sub_recv,
          quer_recv, pc, query, todo, replies, reply_err, sub, queryable, stoptx,
          handle, close_log, processed, published, asked>>

conf == <<history, resources_limit, queryable_prefix>>
task == <<cache, pc, query, todo, replies, reply_err, processed>>
life == <<sub, queryable, stoptx, handle, close_log>>


\* ------------------------------------------------- key expression engine
IsWild(seg) == seg \in {"*", "**"}

\* key_expr.as_str().contains('*')
ContainsStar(ke) == \E i \in 1..Len(ke) : IsWild(ke[i])

RECURSIVE Canon(_)
\* Canonical form of a key expression: "**/**" is "**", "**/*" is "*/**".
Canon(ke) ==
    IF Len(ke) < 2 THEN ke
    ELSE IF ke[1] = "**" /\ ke[2] = "**" THEN Canon(Tail(ke))
    ELSE IF ke[1] = "**" /\ ke[2] = "*"
         THEN <<"*">> \o Canon(<<"**">> \o Tail(Tail(ke)))
    ELSE <<ke[1]>> \o Canon(Tail(ke))

\* prefix.join(key) and prefix / key: prefix + "/" + key, canonized.
Join(prefix, ke) == Canon(prefix \o ke)

RECURSIVE Intersects(_, _)
\* Whether some concrete key matches both key expressions.
Intersects(a, b) ==
    IF a = << >> THEN \A i \in 1..Len(b) : b[i] = "**"
    ELSE IF b = << >> THEN \A i \in 1..Len(a) : a[i] = "**"
    ELSE IF a[1] = "**" THEN Intersects(Tail(a), b) \/ Intersects(a, Tail(b))
    ELSE IF b[1] = "**" THEN Intersects(a, Tail(b)) \/ Intersects(Tail(a), b)
    ELSE (a[1] = b[1] \/ a[1] = "*" \/ b[1] = "*")
         /\ Intersects(Tail(a), Tail(b))

\* A well-formed key expression: not empty, no empty chunk.
IsValid(ke) == ke # << >> /\ \A i \in 1..Len(ke) : ke[i] # ""

\* Whether prefix.join(key) is Ok: the joined key expression is well-formed.
JoinOk(prefix, ke) == IsValid(Canon(prefix \o ke))

\* ------------------------------------------------------------ the builder
\* The key expression of the cache's queryable: [<queryable_prefix>/]<pub_key_expr>
queryable_key_expr(prefix) ==
    IF prefix = << >> THEN pub_key_expr ELSE Join(prefix[1], pub_key_expr)

\* ------------------------------------------------------- the sample branch
\* StoredKey without the prefix rewrite.
StoredKeyNoPrefix(prefix, sample) == sample.key

\* The key a sample is stored under.
StoredKey(prefix, sample) ==
    IF prefix # << >> THEN Join(prefix[1], sample.key) ELSE sample.key

\* LimitReached with `>` for `>=`.
LimitReachedOffByOne(c, rlimit) ==
    rlimit # << >> /\ Cardinality(DOMAIN c) > rlimit[1]

\* cache.len() >= limit, limit = resources_limit.unwrap_or(usize::MAX): a map
\* never holds usize::MAX entries, so without a limit this is false.
LimitReached(c, rlimit) ==
    rlimit # << >> /\ Cardinality(DOMAIN c) >= rlimit[1]

\* Push evicting one sample too early.
PushEvictEarly(queue, sample, hist) ==
    (IF Len(queue) + 1 >= hist /\ queue # << >> THEN Tail(queue) ELSE queue)
        \o <<sample>>

\* The queue of an entry after one more sample.
Push(queue, sample, hist) ==
    (IF Len(queue) >= hist /\ queue # << >> THEN Tail(queue) ELSE queue)
        \o <<sample>>

\* Insert testing the cap before the presence of the key.
InsertCapFirst(c, skey, sample, hist, rlimit) ==
    IF rlimit # << >> /\ Cardinality(DOMAIN c) >= rlimit[1] THEN c
    ELSE IF skey \in DOMAIN c
    THEN [c EXCEPT ![skey] = (IF Len(c[skey]) >= hist /\ c[skey] # << >>
                              THEN Tail(c[skey]) ELSE c[skey]) \o <<sample>>]
    ELSE [k \in DOMAIN c \cup {skey} |->
             IF k = skey THEN <<sample>> ELSE c[k]]

\* Insert making room for a new key by removing an entry once the cap is reached.
InsertReplaceOnLimit(c, skey, sample, hist, rlimit) ==
    IF skey \in DOMAIN c
    THEN [c EXCEPT ![skey] = Push(c[skey], sample, hist)]
    ELSE IF LimitReached(c, rlimit) /\ DOMAIN c = {} THEN c
    ELSE IF LimitReached(c, rlimit)
    THEN [k \in {skey} |-> <<sample>>]
    ELSE [k \in DOMAIN c \cup {skey} |->
             IF k = skey THEN <<sample>> ELSE c[k]]

\* The store after the sample branch took `sample`, stored under `skey`.
Insert(c, skey, sample, hist, rlimit) ==
    IF skey \in DOMAIN c
    THEN [c EXCEPT ![skey] = Push(c[skey], sample, hist)]
    ELSE IF LimitReached(c, rlimit) THEN c
    ELSE [k \in DOMAIN c \cup {skey} |->
             IF k = skey THEN <<sample>> ELSE c[k]]

\* -------------------------------------------------------- the query branch
RECURSIVE Orders(_)
\* The orders in which an iteration may visit the keys of a HashMap.
Orders(S) ==
    IF S = {} THEN {<< >>}
    ELSE UNION {{<<k>> \o o : o \in Orders(S \ {k})} : k \in S}

RECURSIVE Flatten(_, _)
\* The samples of the entries `order` names, entry after entry.
Flatten(order, c) ==
    IF order = << >> THEN << >>
    ELSE c[Head(order)] \o Flatten(Tail(order), c)

\* ExactReplies iterating the queue from its newest sample.
ExactRepliesNewestFirst(c, selector) ==
    IF selector \in DOMAIN c
    THEN [i \in 1..Len(c[selector]) |-> c[selector][Len(c[selector]) + 1 - i]]
    ELSE << >>

\* The exact path: the samples of the entry `selector` names, if any.
ExactReplies(c, selector) ==
    IF selector \in DOMAIN c THEN c[selector] ELSE << >>

\* Matching without the intersection test.
MatchingAll(c, selector) == DOMAIN c

\* The keys of the entries the wildcard path replies with.
Matching(c, selector) == {k \in DOMAIN c : Intersects(selector, k)}

\* WildcardReplies leaving the scan after the first matching entry.
WildcardRepliesFirstMatch(c, selector) ==
    IF Matching(c, selector) = {} THEN {<< >>}
    ELSE {c[k] : k \in Matching(c, selector)}

\* The wildcard path: every sequence of samples one scan of the map may reply with.
WildcardReplies(c, selector) ==
    {Flatten(o, c) : o \in Orders(Matching(c, selector))}

\* The sequences of samples the query branch may reply with.
QueryReplies(c, selector) ==
    IF ~ContainsStar(selector) THEN {ExactReplies(c, selector)}
    ELSE WildcardReplies(c, selector)

\* ------------------------------------------------------------------- Init
\* The state ReliabilityCache::new returns Ok in: both endpoints declared, the
\* task spawned with an empty store, the handle holding the stop sender.
Init ==
    /\ history \in 0..MaxHistory
    /\ resources_limit \in {<< >>} \cup {<<n>> : n \in 0..MaxLimit}
    /\ queryable_prefix \in Prefixes
    /\ cache = [k \in {} |-> << >>]
    /\ sub_recv = << >>
    /\ quer_recv = << >>
    /\ pc = "select"
    /\ query = << >>
    /\ todo = << >>
    /\ replies = << >>
    /\ reply_err = FALSE
    /\ sub = "declared"
    /\ queryable = "declared"
    /\ stoptx = TRUE
    /\ handle = "held"
    /\ close_log = << >>
    /\ processed = << >>
    /\ published = 0
    /\ asked = 0

\* ------------------------------------------------------------ the session
\* The session hands the subscriber a sample published on a matching key.
Publish ==
    /\ sub \in {"declared", "failed"}
    /\ published < MaxSamples
    /\ Len(sub_recv) < MaxChan
    /\ \E k \in SampleKeys :
          /\ Intersects(k, pub_key_expr)
          /\ sub_recv' = Append(sub_recv, [key |-> k, id |-> published + 1])
    /\ published' = published + 1
    /\ UNCHANGED <<conf, task, life, quer_recv, asked>>

\* The session hands the queryable a query whose selector matches its key.
Ask ==
    /\ queryable \in {"declared", "failed"}
    /\ asked < MaxQueries
    /\ Len(quer_recv) < MaxChan
    /\ \E s \in Selectors :
          /\ Intersects(s, queryable_key_expr(queryable_prefix))
          /\ quer_recv' = Append(quer_recv, s)
    /\ asked' = asked + 1
    /\ UNCHANGED <<conf, task, life, sub_recv, published>>

\* TaskSample taking samples while the reply loops of a query are running.
TaskSampleConcurrent ==
    /\ pc \in {"select", "reply"}
    /\ sub_recv # << >>
    /\ LET sample == Head(sub_recv)
       IN IF queryable_prefix # << >> /\ ~JoinOk(queryable_prefix[1], sample.key)
          THEN /\ pc' = "panicked"
               /\ UNCHANGED <<cache, processed>>
          ELSE LET skey == StoredKey(queryable_prefix, sample)
                   after == Insert(cache, skey, sample, history,
                                   resources_limit)
               IN /\ cache' = after
                  /\ processed' =
                        IF sample.id = 0 THEN processed
                        ELSE Append(processed,
                                [sample |-> sample, skey |-> skey,
                                 accepted |-> after # cache])
                  /\ pc' = pc
    /\ sub_recv' = Tail(sub_recv)
    /\ UNCHANGED <<conf, life, quer_recv, query, todo, replies,
                   reply_err, published, asked>>

\* --------------------------------------------------------------- the task
\* select!: sub_recv.recv_async() yields Ok(sample).
\* prefix.join(&sample.key_expr).unwrap() panics when the join is Err, which
\* ends the task.  The log keeps the samples that carry an id (those of an
\* endless stream carry id 0).
TaskSample ==
    /\ pc = "select"
    /\ sub_recv # << >>
    /\ LET sample == Head(sub_recv)
       IN IF queryable_prefix # << >> /\ ~JoinOk(queryable_prefix[1], sample.key)
          THEN /\ pc' = "panicked"
               /\ UNCHANGED <<cache, processed>>
          ELSE LET skey == StoredKey(queryable_prefix, sample)
                   after == Insert(cache, skey, sample, history,
                                   resources_limit)
               IN /\ cache' = after
                  /\ processed' =
                        IF sample.id = 0 THEN processed
                        ELSE Append(processed,
                                [sample |-> sample, skey |-> skey,
                                 accepted |-> after # cache])
                  /\ pc' = pc
    /\ sub_recv' = Tail(sub_recv)
    /\ UNCHANGED <<conf, life, quer_recv, query, todo, replies,
                   reply_err, published, asked>>

\* select!: sub_recv.recv_async() yields Err (the channel is disconnected).
TaskSampleErr ==
    /\ pc = "select"
    /\ sub_recv = << >>
    /\ sub = "undeclared"
    /\ UNCHANGED vars

\* TaskQuery with the sample branch given priority over the query branch.
TaskQueryBiased ==
    /\ pc = "select"
    /\ sub_recv = << >>
    /\ quer_recv # << >>
    /\ query' = <<Head(quer_recv)>>
    /\ todo' \in QueryReplies(cache, Head(quer_recv))
    /\ replies' = << >>
    /\ reply_err' = FALSE
    /\ pc' = "reply"
    /\ quer_recv' = Tail(quer_recv)
    /\ UNCHANGED <<conf, life, cache, processed, sub_recv, published, asked>>

\* select!: quer_recv.recv_async() yields Ok(query); the reply loops start.
TaskQuery ==
    /\ pc = "select"
    /\ quer_recv # << >>
    /\ query' = <<Head(quer_recv)>>
    /\ todo' \in QueryReplies(cache, Head(quer_recv))
    /\ replies' = << >>
    /\ reply_err' = FALSE
    /\ pc' = "reply"
    /\ quer_recv' = Tail(quer_recv)
    /\ UNCHANGED <<conf, life, cache, processed, sub_recv, published, asked>>

\* TaskReply leaving the reply loops at the first reply that returns Err.
TaskReplyAbortOnErr ==
    /\ pc = "reply"
    /\ todo # << >>
    /\ replies' = Append(replies, Head(todo))
    /\ \E ok \in BOOLEAN :
          /\ reply_err' = (reply_err \/ ~ok)
          /\ todo' = IF ok THEN Tail(todo) ELSE << >>
    /\ UNCHANGED <<conf, life, cache, processed, pc, query, sub_recv,
                   quer_recv, published, asked>>

\* query.reply(Ok(sample.clone())).res_async().await, Ok or Err (logged).
TaskReply ==
    /\ pc = "reply"
    /\ todo # << >>
    /\ replies' = Append(replies, Head(todo))
    /\ \E ok \in BOOLEAN : reply_err' = (reply_err \/ ~ok)
    /\ todo' = Tail(todo)
    /\ UNCHANGED <<conf, life, cache, processed, pc, query, sub_recv,
                   quer_recv, published, asked>>

\* The reply loops are over: the query is dropped, the loop selects again.
TaskQueryDone ==
    /\ pc = "reply"
    /\ todo = << >>
    /\ pc' = "select"
    /\ query' = << >>
    /\ replies' = << >>
    /\ reply_err' = FALSE
    /\ UNCHANGED <<conf, life, cache, processed, todo, sub_recv, quer_recv,
                   published, asked>>

\* select!: quer_recv.recv_async() yields Err (the channel is disconnected).
TaskQueryErr ==
    /\ pc = "select"
    /\ quer_recv = << >>
    /\ queryable = "undeclared"
    /\ UNCHANGED vars

\* TaskStop taking the stop branch without returning from the loop.
TaskStopIgnored ==
    /\ pc = "select"
    /\ ~stoptx
    /\ UNCHANGED vars

\* select!: stoprx.next() yields None once stoptx is dropped: the task returns.
TaskStop ==
    /\ pc = "select"
    /\ ~stoptx
    /\ pc' = "done"
    /\ UNCHANGED <<conf, life, cache, processed, query, todo, replies,
                   reply_err, sub_recv, quer_recv, published, asked>>

\* ------------------------------------------------------------- the handle
\* CloseUndeclareQueryable dropping _stoptx before the undeclare.
CloseStopFirst ==
    /\ handle = "held"
    /\ stoptx' = FALSE
    /\ \/ /\ queryable' = "undeclared"
          /\ handle' = "closing"
          /\ close_log' = close_log \o <<"stop", "undeclare_queryable">>
          /\ UNCHANGED sub
       \/ /\ queryable' = "failed"
          /\ sub' = "undeclared"
          /\ handle' = "closed_err"
          /\ close_log' = close_log \o
                <<"stop", "undeclare_queryable_err", "drop_sub", "err">>
    /\ UNCHANGED <<conf, task, sub_recv, quer_recv, published, asked>>

\* CloseUndeclareQueryable whose Err return keeps _sub and _stoptx alive.
CloseErrLeaks ==
    /\ handle = "held"
    /\ \/ /\ queryable' = "undeclared"
          /\ handle' = "closing"
          /\ close_log' = Append(close_log, "undeclare_queryable")
          /\ UNCHANGED <<sub, stoptx>>
       \/ /\ queryable' = "failed"
          /\ handle' = "closed_err"
          /\ close_log' = close_log \o <<"undeclare_queryable_err", "err">>
          /\ UNCHANGED <<sub, stoptx>>
    /\ UNCHANGED <<conf, task, sub_recv, quer_recv, published, asked>>

\* close(): _queryable.undeclare().res_async().await?
CloseUndeclareQueryable ==
    /\ handle = "held"
    /\ \/ /\ queryable' = "undeclared"
          /\ handle' = "closing"
          /\ close_log' = Append(close_log, "undeclare_queryable")
          /\ UNCHANGED <<sub, stoptx>>
       \/ \* Err: `?` returns it; _sub and _stoptx are dropped.
          /\ queryable' = "failed"
          /\ sub' = "undeclared"
          /\ stoptx' = FALSE
          /\ handle' = "closed_err"
          /\ close_log' = close_log \o
                <<"undeclare_queryable_err", "stop", "drop_sub", "err">>
    /\ UNCHANGED <<conf, task, sub_recv, quer_recv, published, asked>>

\* close(): _sub.undeclare().res_async().await?
CloseUndeclareSub ==
    /\ handle = "closing"
    /\ \/ /\ sub' = "undeclared"
          /\ handle' = "closing_sub_done"
          /\ close_log' = Append(close_log, "undeclare_sub")
          /\ UNCHANGED <<queryable, stoptx>>
       \/ \* Err: `?` returns it; _stoptx is dropped.
          /\ sub' = "failed"
          /\ stoptx' = FALSE
          /\ handle' = "closed_err"
          /\ close_log' = close_log \o <<"undeclare_sub_err", "stop", "err">>
          /\ UNCHANGED queryable
    /\ UNCHANGED <<conf, task, sub_recv, quer_recv, published, asked>>

\* CloseDropStop dropping the two endpoints once more after their undeclare.
CloseDropStopAndEndpoints ==
    /\ handle = "closing_sub_done"
    /\ stoptx' = FALSE
    /\ handle' = "closed_ok"
    /\ close_log' = close_log \o <<"drop_sub", "drop_queryable", "stop", "ok">>
    /\ UNCHANGED <<conf, task, sub, queryable, sub_recv, quer_recv,
                   published, asked>>

\* close(): drop(_stoptx); Ok(())
CloseDropStop ==
    /\ handle = "closing_sub_done"
    /\ stoptx' = FALSE
    /\ handle' = "closed_ok"
    /\ close_log' = close_log \o <<"stop", "ok">>
    /\ UNCHANGED <<conf, task, sub, queryable, sub_recv, quer_recv,
                   published, asked>>

\* The handle is dropped without close(): its fields are dropped in order.
DropHandle ==
    /\ handle = "held"
    /\ sub' = "undeclared"
    /\ queryable' = "undeclared"
    /\ stoptx' = FALSE
    /\ handle' = "dropped"
    /\ close_log' = close_log \o <<"drop_sub", "drop_queryable", "stop">>
    /\ UNCHANGED <<conf, task, sub_recv, quer_recv, published, asked>>

Next ==
    \/ Publish
    \/ Ask
    \/ TaskSample
    \/ TaskSampleErr
    \/ TaskQuery
    \/ TaskReply
    \/ TaskQueryDone
    \/ TaskQueryErr
    \/ TaskStop
    \/ CloseUndeclareQueryable
    \/ CloseUndeclareSub
    \/ CloseDropStop
    \/ DropHandle

Spec == Init /\ [][Next]_vars

\* The session hands the subscriber a sample whose key expression was built
\* unchecked and is not well-formed ("a/", an empty last chunk).
UncheckedKey == <<"a", "">>

PublishUnchecked ==
    /\ sub \in {"declared", "failed"}
    /\ published < MaxSamples
    /\ Len(sub_recv) < MaxChan
    /\ Intersects(UncheckedKey, pub_key_expr)
    /\ sub_recv' = Append(sub_recv, [key |-> UncheckedKey, id |-> published + 1])
    /\ published' = published + 1
    /\ UNCHANGED <<conf, task, life, quer_recv, asked>>

UncheckedNext == Next \/ PublishUnchecked

\* The cache on a session that also delivers samples with unchecked keys.
UncheckedSpec == Init /\ [][UncheckedNext]_vars

\* Publications that keep arriving without end.
PublishStorm ==
    /\ sub \in {"declared", "failed"}
    /\ Len(sub_recv) < MaxChan
    /\ \E k \in SampleKeys :
          /\ Intersects(k, pub_key_expr)
          /\ sub_recv' = Append(sub_recv, [key |-> k, id |-> 0])
    /\ UNCHANGED <<conf, task, life, quer_recv, published, asked>>

\* Queries that keep arriving without end.
AskStorm ==
    /\ queryable \in {"declared", "failed"}
    /\ Len(quer_recv) < MaxChan
    /\ \E s \in Selectors :
          /\ Intersects(s, queryable_key_expr(queryable_prefix))
          /\ quer_recv' = Append(quer_recv, s)
    /\ UNCHANGED <<conf, task, life, sub_recv, published, asked>>

StormNext ==
    \/ PublishStorm
    \/ AskStorm
    \/ TaskSample
    \/ TaskSampleErr
    \/ TaskQuery
    \/ TaskReply
    \/ TaskQueryDone
    \/ TaskQueryErr
    \/ TaskStop
    \/ CloseUndeclareQueryable
    \/ CloseUndeclareSub
    \/ CloseDropStop
    \/ DropHandle

\* ------------------------------------------------------------------ build
\* The state ReliabilityCache::new is called in: nothing declared, no task.
BuildInit ==
    /\ history \in 0..MaxHistory
    /\ resources_limit \in {<< >>} \cup {<<n>> : n \in 0..MaxLimit}
    /\ queryable_prefix \in Prefixes
    /\ cache = [k \in {} |-> << >>]
    /\ sub_recv = << >>
    /\ quer_recv = << >>
    /\ pc = "unspawned"
    /\ query = << >>
    /\ todo = << >>
    /\ replies = << >>
    /\ reply_err = FALSE
    /\ sub = "none"
    /\ queryable = "none"
    /\ stoptx = FALSE
    /\ handle = "builder"
    /\ close_log = << >>
    /\ processed = << >>
    /\ published = 0
    /\ asked = 0

\* new(): conf.pub_key_expr? and the match on conf.queryable_prefix; either
\* may hold an Err, which new() returns.
BuildValidate ==
    /\ handle = "builder"
    /\ \E pub_ok, prefix_ok \in BOOLEAN :
          handle' = IF pub_ok /\ (queryable_prefix = << >> \/ prefix_ok)
                    THEN "declaring_sub" ELSE "build_err"
    /\ UNCHANGED <<conf, task, sub, queryable, stoptx, close_log, sub_recv,
                   quer_recv, published, asked>>

\* new(): conf.session.declare_subscriber(&key_expr)...res_sync()?
BuildDeclareSub ==
    /\ handle = "declaring_sub"
    /\ \/ /\ sub' = "declared"
          /\ handle' = "declaring_queryable"
       \/ /\ handle' = "build_err"
          /\ UNCHANGED sub
    /\ UNCHANGED <<conf, task, queryable, stoptx, close_log, sub_recv,
                   quer_recv, published, asked>>

\* new(): conf.session.declare_queryable(&queryable_key_expr)...res_sync()?
\* On Err, `?` returns it and `sub`, declared above, is dropped.
BuildDeclareQueryable ==
    /\ handle = "declaring_queryable"
    /\ \/ /\ queryable' = "declared"
          /\ handle' = "spawning"
          /\ UNCHANGED sub
       \/ /\ handle' = "build_err"
          /\ sub' = "undeclared"
          /\ UNCHANGED queryable
    /\ UNCHANGED <<conf, task, stoptx, close_log, sub_recv, quer_recv,
                   published, asked>>

\* new(): the stop channel is created, the task is spawned, Ok(handle).
BuildSpawn ==
    /\ handle = "spawning"
    /\ stoptx' = TRUE
    /\ pc' = "select"
    /\ handle' = "held"
    /\ UNCHANGED <<conf, cache, query, todo, replies, reply_err, processed,
                   sub, queryable, close_log, sub_recv, quer_recv, published,
                   asked>>

BuildNext ==
    \/ BuildValidate
    \/ BuildDeclareSub
    \/ BuildDeclareQueryable
    \/ BuildSpawn
    \/ Next

\* The cache from the call of ReliabilityCache::new on.
BuildSpec == BuildInit /\ [][BuildNext]_vars

\* The executor keeps polling the spawned task: a reply that is awaited
\* completes and a reply loop that is over returns to select!.  select! takes
\* one of its ready branches at random: a branch that is ready again and again
\* is taken (the stop branch too, however many queries keep arriving).
TaskFairness ==
    /\ WF_vars(TaskReply)
    /\ WF_vars(TaskQueryDone)
    /\ SF_vars(TaskStop)
    /\ WF_vars(TaskQuery)
    /\ SF_vars(TaskSample)

\* The configuration of the store does not bear on how the loop is scheduled:
\* the fair runs keep one sample per key and set no key cap.
FairInit == Init /\ history = 1 /\ resources_limit = << >>

\* The cache under endless streams of publications and queries, fairly run.
FairSpec == FairInit /\ [][StormNext]_vars /\ TaskFairness

\* ---------------------------------------------------------------- helpers
Range(s) == {s[i] : i \in 1..Len(s)}
Min(a, b) == IF a <= b THEN a ELSE b
LastN(s, n) == SubSeq(s, Len(s) - n + 1, Len(s))

\* The samples the task inserted under stored key k, in the order it took them.
InsertedOn(k) ==
    LET Kept(p) == p.skey = k /\ p.accepted
        kept == SelectSeq(processed, Kept)
    IN [i \in 1..Len(kept) |-> kept[i].sample]

\* The replies that carry a sample of `queue`, in the order they were sent.
RepliesFrom(queue) ==
    LET From(s) == s \in Range(queue) IN SelectSeq(replies, From)

\* The reply loops of the query being served are over.
Served == pc = "reply" /\ todo = << >>

\* ----------------------------------------------------------------- claims

\* C1: every entry holds exactly the last min(N, history) of the N samples
\* inserted on its key, in insertion order, for every history the builder
\* accepts; so no entry is ever longer than history.
C1_PerKeyFifoBound ==
    \A k \in DOMAIN cache :
        LET ins == InsertedOn(k)
        IN /\ cache[k] = LastN(ins, Min(Len(ins), history))
           /\ Len(cache[k]) <= history

\* C2: with resources_limit set, the store never holds more than
\* resources_limit distinct keys.
C2_GlobalKeyCap ==
    resources_limit # << >> => Cardinality(DOMAIN cache) <= resources_limit[1]

\* C2 witness: the cap is set and reached, and it refused a sample.
C2_Witness ==
    /\ resources_limit = <<1>>
    /\ Cardinality(DOMAIN cache) = 1
    /\ \E i \in 1..Len(processed) : ~processed[i].accepted

\* C3: once the number of keys has reached resources_limit, a sample whose
\* stored key is present is still inserted, as the newest sample of its entry.
C3_ExistingKeysUnaffected ==
    [][(/\ TaskSample
        /\ resources_limit # << >>
        /\ Cardinality(DOMAIN cache) >= resources_limit[1]
        /\ processed'[Len(processed')].skey \in DOMAIN cache)
       => LET k == processed'[Len(processed')].skey
          IN /\ DOMAIN cache' = DOMAIN cache
             /\ cache'[k] # << >>
             /\ cache'[k][Len(cache'[k])] = Head(sub_recv)]_vars

\* C3 witness: with the cap reached, a present key took a second sample.
C3_Witness ==
    /\ resources_limit = <<1>>
    /\ \E k \in DOMAIN cache : Len(InsertedOn(k)) >= 2 /\ Len(cache[k]) >= 2

\* C4: a query whose selector has no '*' is answered with exactly the samples
\* of the entry the selector names, in insertion order, and with nothing when
\* the selector is not a stored key.
C4_ExactSelectorReplay ==
    (Served /\ ~ContainsStar(query[1])) =>
        replies = (IF query[1] \in DOMAIN cache THEN cache[query[1]] ELSE << >>)

\* C4 witness: an exact query was answered with the two samples of its entry.
C4_Witness ==
    /\ Served
    /\ ~ContainsStar(query[1])
    /\ query[1] \in DOMAIN cache
    /\ Len(replies) = 2

\* C5: a wildcard query is answered with every sample of every entry whose
\* stored key intersects the selector, the samples of one entry in insertion
\* order.
C5_WildcardCompleteness ==
    (Served /\ ContainsStar(query[1])) =>
        \A k \in DOMAIN cache :
            Intersects(query[1], k) => RepliesFrom(cache[k]) = cache[k]

\* C5 witness: a wildcard query was answered from two entries, one of them
\* holding two samples.
C5_Witness ==
    /\ Served
    /\ ContainsStar(query[1])
    /\ \E k1, k2 \in DOMAIN cache :
          /\ k1 # k2
          /\ Intersects(query[1], k1)
          /\ Intersects(query[1], k2)
          /\ Len(cache[k1]) = 2

\* C6: every reply to a wildcard query carries a sample of an entry whose
\* stored key intersects the selector.
C6_WildcardSoundness ==
    (pc = "reply" /\ ContainsStar(query[1])) =>
        \A i \in 1..Len(replies) :
            \E k \in DOMAIN cache :
                Intersects(query[1], k) /\ replies[i] \in Range(cache[k])

\* C6 witness: a wildcard query was answered while the store held an entry
\* its selector does not intersect.
C6_Witness ==
    /\ Served
    /\ ContainsStar(query[1])
    /\ replies # << >>
    /\ \E k \in DOMAIN cache : ~Intersects(query[1], k)

\* C7: with queryable_prefix = P every sample received under key k is stored
\* under P/k, never under k, and a query on k alone is not answered with it
\* unless k intersects P/k; without a prefix it is stored under k.
C7_PrefixSemantics ==
    /\ \A k \in DOMAIN cache : \A s \in Range(cache[k]) :
          k = (IF queryable_prefix = << >> THEN s.key
               ELSE Canon(queryable_prefix[1] \o s.key))
    /\ (pc = "reply" /\ queryable_prefix # << >>) =>
          \A s \in Range(replies) :
              s.key = query[1] =>
                  Intersects(s.key, Canon(queryable_prefix[1] \o s.key))
    /\ (Served /\ queryable_prefix # << >>) =>
          \A i \in 1..Len(processed) :
              LET p == processed[i]
              IN (/\ query[1] = Canon(queryable_prefix[1] \o p.sample.key)
                  /\ query[1] \in DOMAIN cache
                  /\ p.sample \in Range(cache[query[1]]))
                 => p.sample \in Range(replies)

\* C7 witness: with prefix a, the sample published on a is stored under a/a
\* and a query on a alone was served without a reply.
C7_Witness ==
    /\ Served
    /\ queryable_prefix = << <<"a">> >>
    /\ query = << <<"a">> >>
    /\ replies = << >>
    /\ <<"a", "a">> \in DOMAIN cache
    /\ \E s \in Range(cache[<<"a", "a">>]) : s.key = <<"a">>

\* C8 as stated: every sample the task processed before it took a query on the
\* same stored key is among the replies to that query.
C8_Original ==
    Served =>
        \A i \in 1..Len(processed) :
            processed[i].skey = query[1] =>
                processed[i].sample \in Range(replies)

\* The number of samples inserted under the same stored key after processed[i].
LaterOn(i) ==
    Cardinality({j \in (i + 1)..Len(processed) :
                    processed[j].skey = processed[i].skey
                    /\ processed[j].accepted})

\* C8 as amended: a sample the task processed before it took a query on the
\* same stored key is among the replies, provided the key cap did not refuse
\* it and fewer than history samples were inserted on that key after it.
C8_VisibleUnlessRefusedOrEvicted ==
    Served =>
        \A i \in 1..Len(processed) :
            (/\ processed[i].skey = query[1]
             /\ processed[i].accepted
             /\ LaterOn(i) < history)
            => processed[i].sample \in Range(replies)

\* C8 witness: a query was answered with a sample that was followed by a
\* later sample on its key before the query was taken.
C8_Witness ==
    /\ Served
    /\ \E i \in 1..Len(processed) :
          /\ processed[i].skey = query[1]
          /\ processed[i].accepted
          /\ LaterOn(i) = 1
          /\ processed[i].sample \in Range(replies)

\* C9: once close() has resolved (Ok(())) the task sends no further reply to
\* any query, whatever it was doing when close() ran.
C9_NoReplyAfterClose ==
    [][(handle = "closed_ok")
          => ~(Len(replies') > Len(replies))]_vars

Count(log, events) == Cardinality({i \in 1..Len(log) : log[i] \in events})

\* C11: when close() resolves Ok(()), the queryable and the subscriber have
\* each been undeclared on the session exactly once.
C11_UndeclaredExactlyOnce ==
    handle = "closed_ok" =>
        /\ sub = "undeclared"
        /\ queryable = "undeclared"
        /\ Count(close_log, {"undeclare_queryable", "drop_queryable"}) = 1
        /\ Count(close_log, {"undeclare_sub", "drop_sub"}) = 1
        /\ Count(close_log, {"undeclare_queryable_err", "undeclare_sub_err"}) = 0

\* C11 witness: close() resolved Ok(()) with both endpoints undeclared, after
\* the task had stored a sample.
C11_Witness ==
    /\ handle = "closed_ok"
    /\ sub = "undeclared"
    /\ queryable = "undeclared"
    /\ DOMAIN cache # {}

\* C12: when the handle is dropped without close(), both endpoints are
\* undeclared and the stop channel is closed, and the task eventually
\* terminates, whatever samples or queries are pending.
C12_DropCleanup ==
    /\ [](handle = "dropped" =>
            sub = "undeclared" /\ queryable = "undeclared" /\ ~stoptx)
    /\ (handle = "dropped") ~> (pc = "done")

\* C12 witness: the handle was dropped while a sample and a query were
\* pending, and the task has terminated.
C12_Witness ==
    /\ handle = "dropped"
    /\ pc = "done"
    /\ sub_recv # << >>
    /\ quer_recv # << >>

\* C13: whenever build() returns an error, no subscriber and no queryable has
\* been declared on the session and no task has been spawned.
C13_FailedBuildDeclaresNothing ==
    handle = "build_err" =>
        sub = "none" /\ queryable = "none" /\ pc = "unspawned"

\* C14: when the sample branch takes a sample whose stored key is not in the
\* store while the number of keys has reached resources_limit, the store after
\* the step (its keys and the queue of every entry) is the store before it.
C14_RefusedInsertLeavesStore ==
    [][(/\ TaskSample
        /\ StoredKey(queryable_prefix, Head(sub_recv)) \notin DOMAIN cache
        /\ resources_limit # << >>
        /\ Cardinality(DOMAIN cache) >= resources_limit[1])
       => cache' = cache]_vars

\* A sample was refused for a key that is still absent, next to a full entry.
C14_Witness ==
    /\ resources_limit = <<1>>
    /\ \E i \in 1..Len(processed) :
          /\ ~processed[i].accepted
          /\ processed[i].skey \notin DOMAIN cache
    /\ \E k \in DOMAIN cache : Len(cache[k]) = history /\ history > 0

\* C15: a step of the reply loops in which a reply has returned an error leaves
\* the store as it was, keeps the task in the loops and drops none of the
\* replies still to attempt; from there every remaining reply is attempted and
\* the task returns to its select, where it takes later samples and queries.
C15_ReplyFailureNonFatal ==
    /\ [][(pc = "reply" /\ reply_err')
          => /\ cache' = cache
             /\ pc' = "reply"
             /\ replies' \o todo' = replies \o todo]_vars
    /\ (pc = "reply" /\ reply_err) ~> (Served /\ reply_err)
    /\ (Served /\ reply_err) ~> (pc = "select")

\* All the replies of a query with two matching samples were attempted, one of
\* them with an error.
C15_Witness == Served /\ reply_err /\ Len(replies) = 2 /\ DOMAIN cache # {}

\* C16: the task has stopped running (it returned or was aborted) only if the
\* stop channel was closed; no sample, query or channel disconnection ends it.
C16_OnlyShutdownTerminates ==
    pc \in {"done", "panicked"} => ~stoptx

\* C17: under fair scheduling and endless publications and queries, as long as
\* the shutdown signal is not raised, the query channel cannot stay non-empty
\* without the task taking queries from it again and again (so every delivered
\* query is taken), every query taken gets all its replies attempted, and the
\* sample channel cannot stay non-empty without the task taking samples from
\* it again and again (so every delivered sample is inserted or refused).
C17_NonStarvation ==
    /\ <>[](quer_recv # << >> /\ stoptx) => []<><<TaskQuery>>_vars
    /\ pc = "reply" ~> Served
    /\ <>[](sub_recv # << >> /\ stoptx) => []<><<TaskSample>>_vars

\* A query is served, all replies attempted, while a publication and another
\* query wait in the channels.
C17_Witness ==
    /\ Served
    /\ replies # << >>
    /\ sub_recv # << >>
    /\ quer_recv # << >>
    /\ stoptx

\* C18: once the stop channel is closed, no step inserts a sample (the store
\* stays as it is) and no step sends a reply.
C18_ShutdownImmediate ==
    [][~stoptx => (cache' = cache /\ ~(Len(replies') > Len(replies)))]_vars

\* C19: while the task is replying to a query no step changes the store, and
\* the replies to an exact query, those sent and those still to send, are at
\* every moment of the reply loop the queue of the entry, oldest first, as it
\* was when the query was taken, whatever waits in the sample channel.
C19_NoReplyReordering ==
    /\ [][pc = "reply" => cache' = cache]_vars
    /\ []((pc = "reply" /\ ~ContainsStar(query[1]))
            => replies \o todo = (IF query[1] \in DOMAIN cache
                                  THEN cache[query[1]] ELSE << >>))

\* A reply to an exact query has been sent, more are to send, and a
\* publication on the same key waits in the sample channel.
C19_Witness ==
    /\ pc = "reply"
    /\ ~ContainsStar(query[1])
    /\ replies # << >>
    /\ todo # << >>
    /\ sub_recv # << >>
    /\ StoredKey(queryable_prefix, Head(sub_recv)) = query[1]

\* C20: in every reachable state every key of the store is a valid key
\* expression that holds no wildcard.
C20_StoredKeysConcrete ==
    \A k \in DOMAIN cache : IsValid(k) /\ ~ContainsStar(k)

\* C21: in every reachable state of the store and for every selector without
\* '*', the replies of the exact lookup are the one sequence of replies the
\* wildcard scan would produce for that selector.
C21_FastPathEquivalence ==
    \A s \in Selectors :
        ~ContainsStar(s) => WildcardReplies(cache, s) = {ExactReplies(cache, s)}

\* C22: when close() has resolved to an error, the error is that of the one
\* undeclare that failed, the other endpoint is undeclared and the stop channel
\* is closed; from there the task eventually terminates.
C22_CloseFailurePath ==
    /\ [](handle = "closed_err" =>
            /\ ~stoptx
            /\ \/ /\ queryable = "failed"
                  /\ sub = "undeclared"
                  /\ Count(close_log, {"undeclare_queryable_err"}) = 1
                  /\ Count(close_log, {"undeclare_sub_err"}) = 0
               \/ /\ sub = "failed"
                  /\ queryable = "undeclared"
                  /\ Count(close_log, {"undeclare_sub_err"}) = 1
                  /\ Count(close_log, {"undeclare_queryable_err"}) = 0
            /\ close_log[Len(close_log)] = "err")
    /\ (handle = "closed_err") ~> (pc = "done")

\* close() failed on the queryable; the subscriber is undeclared and the task
\* has returned, leaving a sample and a query in the channels.
C22_Witness ==
    /\ handle = "closed_err"
    /\ queryable = "failed"
    /\ sub = "undeclared"
    /\ pc = "done"
    /\ sub_recv # << >>
    /\ quer_recv # << >>
=============================================================================
